---------------------------- MODULE Spec2Model ----------------------------
(***************************************************************************)
(* Model of chatbot_app.py: the query resolution pipeline get_answer       *)
(* (normalize_query, exact match, keyword match, fuzzy match, fallback)    *)
(* and the chat handler that appends to st.session_state.messages.         *)
(*                                                                         *)
(* Text is a sequence of one-character strings, so that lower(), replace(),*)
(* the regular expressions and the similarity score are computed character *)
(* by character as Python computes them.  Answers are opaque and stay      *)
(* TLA+ strings.                                                           *)
(***************************************************************************)
EXTENDS Integers, Sequences, FiniteSets, TLC

VARIABLES
  qa_df,         \* the knowledge table: sequence of [question, answer] rows
  synonym_dict,  \* the module-level synonym dictionary
  messages,      \* messages[u]: st.session_state.messages of session u
  pc,            \* pc[u]: where session u's script run is
  query,         \* query[u]: argument of the running get_answer call
  query_lower,   \* locals of the running get_answer call
  keyword,
  best_match,
  score,
  response       \* the value get_answer returned

vars == << qa_df, synonym_dict, messages, pc, query, query_lower, keyword,
           best_match, score, response >>

-----------------------------------------------------------------------------
(* Characters *)

LowerCase == << "a","b","c","d","e","f","g","h","i","j","k","l","m",
                "n","o","p","q","r","s","t","u","v","w","x","y","z" >>
UpperCase == << "A","B","C","D","E","F","G","H","I","J","K","L","M",
                "N","O","P","Q","R","S","T","U","V","W","X","Y","Z" >>
Digits    == << "0","1","2","3","4","5","6","7","8","9" >>

\* The characters of the model in code point order (what sorted() compares).
Ascii == << " " >> \o Digits \o << "?" >> \o UpperCase \o << "_" >> \o LowerCase

Range(s) == { s[i] : i \in DOMAIN s }

Ord(c) == CHOOSE i \in DOMAIN Ascii : Ascii[i] = c

\* \w of the re module: letters, digits and the underscore.
WordChars == Range(LowerCase) \cup Range(UpperCase) \cup Range(Digits) \cup {"_"}

IsWordChar(c) == c \in WordChars

\* \s, the separator of str.split() and what str.strip() removes.
IsSpace(c) == c = " "

UpperChars == Range(UpperCase)

LowerChar(c) ==
  IF c \in UpperChars
  THEN LowerCase[CHOOSE i \in DOMAIN UpperCase : UpperCase[i] = c]
  ELSE c

\* str.lower()
Lower(s) == [ i \in DOMAIN s |-> LowerChar(s[i]) ]

Min(S) == CHOOSE x \in S : \A y \in S : x <= y
Max(S) == CHOOSE x \in S : \A y \in S : x >= y

\* str.find(old) + 1: where the first occurrence of old in s starts, 0 for none.
Find(s, old) ==
  LET at == { i \in 1..(Len(s) - Len(old) + 1) :
                 s[i] = old[1] /\ SubSeq(s, i, i + Len(old) - 1) = old }
  IN  IF at = {} THEN 0 ELSE Min(at)

\* str.replace(old, new) for a non-empty old: every occurrence, found left to
\* right, occurrences not overlapping.
RECURSIVE Replace(_, _, _)
Replace(s, old, new) ==
  IF Find(s, old) = 0 THEN s
  ELSE SubSeq(s, 1, Find(s, old) - 1) \o new
       \o Replace(SubSeq(s, Find(s, old) + Len(old), Len(s)), old, new)

-----------------------------------------------------------------------------
(* normalize_query *)

\* The inner loop: for syn in syns.  (An empty string has nothing to replace;
\* the test also makes TLC evaluate q before the next iteration.)
RECURSIVE ReplaceSyns(_, _, _)
ReplaceSyns(q, standardT, syns) ==
  IF syns = << >> \/ q = << >> THEN q
  ELSE ReplaceSyns(Replace(q, Lower(Head(syns)), Lower(standardT)),
                   standardT, Tail(syns))

\* The outer loop: for standardT, syns in synonym_dict.items().
RECURSIVE ReplaceEntries(_, _)
ReplaceEntries(q, entries) ==
  IF entries = << >> \/ q = << >> THEN q
  ELSE ReplaceEntries(ReplaceSyns(q, Head(entries).standardT, Head(entries).syns),
                      Tail(entries))

normalize_query(q, dict) == ReplaceEntries(Lower(q), dict)

-----------------------------------------------------------------------------
(* Exact match *)

\* The rows of dataframe[dataframe['question'].str.lower() == query_lower.lower()].
ExactRows(ql, df) ==
  { i \in DOMAIN df : Lower(df[i].question) = Lower(ql) }

-----------------------------------------------------------------------------
(* Keyword match *)

\* re.findall(r'\b\w+\b', text): the maximal runs of word characters, left to
\* right.
RECURSIVE FindWords(_, _)
FindWords(text, run) ==
  IF text = << >>
  THEN IF run = << >> THEN << >> ELSE << run >>
  ELSE IF IsWordChar(Head(text))
       THEN FindWords(Tail(text), Append(run, Head(text)))
       ELSE IF run = << >>
            THEN FindWords(Tail(text), << >>)
            ELSE << run >> \o FindWords(Tail(text), << >>)

Keywords(ql) == FindWords(ql, << >>)

\* Stable insertion of x into a list ordered by descending length: x goes
\* behind every element at least as long as x.
RECURSIVE InsertByLen(_, _)
InsertByLen(x, sorted) ==
  IF sorted = << >> THEN << x >>
  ELSE IF Len(Head(sorted)) >= Len(x)
       THEN << Head(sorted) >> \o InsertByLen(x, Tail(sorted))
       ELSE << x >> \o sorted

\* Faulty variant of SortedByLenDesc: descending length, but equal lengths in reverse
\* order, as reversing an ascending sort gives.
RECURSIVE InsertBeforeEqual(_, _)
InsertBeforeEqual(x, sorted) ==
  IF sorted = << >> THEN << x >>
  ELSE IF Len(Head(sorted)) > Len(x)
       THEN << Head(sorted) >> \o InsertBeforeEqual(x, Tail(sorted))
       ELSE << x >> \o sorted

RECURSIVE SortedTiesReversed(_)
SortedTiesReversed(kws) ==
  IF kws = << >> THEN << >>
  ELSE InsertBeforeEqual(kws[Len(kws)], SortedTiesReversed(SubSeq(kws, 1, Len(kws) - 1)))

\* sorted(keywords, key=len, reverse=True): descending length, equal lengths in
\* their original order (reverse=True keeps the sort stable).
RECURSIVE SortedByLenDesc(_)
SortedByLenDesc(kws) ==
  IF kws = << >> THEN << >>
  ELSE InsertByLen(kws[Len(kws)], SortedByLenDesc(SubSeq(kws, 1, Len(kws) - 1)))

\* re.compile(r'\b' + re.escape(kw) + r'\b', re.IGNORECASE).search(text) for a
\* kw made of word characters: kw occurs, ignoring case, with no word
\* character right before it and none right after it.
ContainsWord(text, kw) ==
  \E i \in 1..(Len(text) - Len(kw) + 1) :
     /\ LowerChar(text[i]) = LowerChar(kw[1])
     /\ Lower(SubSeq(text, i, i + Len(kw) - 1)) = Lower(kw)
     /\ (i = 1 \/ ~IsWordChar(text[i - 1]))
     /\ (i + Len(kw) - 1 = Len(text) \/ ~IsWordChar(text[i + Len(kw)]))

\* The rows of dataframe[dataframe['question'].str.contains(pattern)].
KeywordRows(kw, df) == { i \in DOMAIN df : ContainsWord(df[i].question, kw) }

\* The for loop over the sorted keywords: stops at the first keyword with a
\* matching row; `last` is the value the loop variable holds.
RECURSIVE KeywordLoop(_, _, _)
KeywordLoop(kws, df, last) ==
  IF kws = << >> THEN [hit |-> FALSE, keyword |-> last, row |-> 0]
  ELSE IF KeywordRows(Head(kws), df) # {}
       THEN [hit |-> TRUE, keyword |-> Head(kws), row |-> Min(KeywordRows(Head(kws), df))]
       ELSE KeywordLoop(Tail(kws), df, Head(kws))

-----------------------------------------------------------------------------
(* Fuzzy match: process.extractOne with scorer=fuzz.token_set_ratio *)

\* str.strip()
RECURSIVE LStrip(_)
LStrip(s) == IF s # << >> /\ IsSpace(Head(s)) THEN LStrip(Tail(s)) ELSE s

RECURSIVE RStrip(_)
RStrip(s) ==
  IF s # << >> /\ IsSpace(s[Len(s)]) THEN RStrip(SubSeq(s, 1, Len(s) - 1)) ELSE s

Strip(s) == RStrip(LStrip(s))

\* utils.full_process, the processor extractOne applies to the query and to
\* every choice: non-word characters become spaces, then lower(), then strip().
full_process(s) ==
  Strip(Lower([ i \in DOMAIN s |-> IF IsWordChar(s[i]) THEN s[i] ELSE " " ]))

\* str.split(): the maximal runs of non-space characters.
RECURSIVE SplitRuns(_, _)
SplitRuns(text, run) ==
  IF text = << >>
  THEN IF run = << >> THEN << >> ELSE << run >>
  ELSE IF ~IsSpace(Head(text))
       THEN SplitRuns(Tail(text), Append(run, Head(text)))
       ELSE IF run = << >>
            THEN SplitRuns(Tail(text), << >>)
            ELSE << run >> \o SplitRuns(Tail(text), << >>)

Split(s) == SplitRuns(s, << >>)

\* a < b for strings: the order sorted() puts tokens in.
RECURSIVE StrLess(_, _)
StrLess(a, b) ==
  IF b = << >> THEN FALSE
  ELSE IF a = << >> THEN TRUE
  ELSE IF Head(a) = Head(b) THEN StrLess(Tail(a), Tail(b))
  ELSE Ord(Head(a)) < Ord(Head(b))

\* sorted(tokens) for a set of tokens.
RECURSIVE SortedTokens(_)
SortedTokens(S) ==
  IF S = {} THEN << >>
  ELSE LET m == CHOOSE x \in S : \A y \in S \ {x} : StrLess(x, y)
       IN  << m >> \o SortedTokens(S \ {m})

\* " ".join(tokens)
RECURSIVE Join(_)
Join(tokens) ==
  IF tokens = << >> THEN << >>
  ELSE IF Len(tokens) = 1 THEN Head(tokens)
  ELSE Head(tokens) \o << " " >> \o Join(Tail(tokens))

\* Length of the common run of a from i and b from j.
RECURSIVE CommonRun(_, _, _, _)
CommonRun(a, b, i, j) ==
  IF i <= Len(a) /\ j <= Len(b) /\ a[i] = b[j]
  THEN 1 + CommonRun(a, b, i + 1, j + 1)
  ELSE 0

\* SequenceMatcher.find_longest_match: the longest common block; of the
\* longest ones the one that starts earliest in a, and of those the one that
\* starts earliest in b.  (A longest block starts where the characters before
\* it differ, so only those starts are measured.)
LongestMatch(a, b) ==
  LET starts == { p \in (DOMAIN a) \X (DOMAIN b) :
                    /\ a[p[1]] = b[p[2]]
                    /\ (p[1] = 1 \/ p[2] = 1 \/ a[p[1] - 1] # b[p[2] - 1]) }
      blocks == { << p[1], p[2], CommonRun(a, b, p[1], p[2]) >> : p \in starts }
      size   == Max({ m[3] : m \in blocks })
      i      == Min({ m[1] : m \in { n \in blocks : n[3] = size } })
      j      == Min({ m[2] : m \in { n \in blocks : n[3] = size /\ n[1] = i } })
  IN  IF starts = {} THEN [i |-> 1, j |-> 1, size |-> 0]
      ELSE [i |-> i, j |-> j, size |-> size]

\* The sum of the sizes of SequenceMatcher.get_matching_blocks(): the longest
\* match, then the same to its left and to its right.
RECURSIVE MatchingSize(_, _)
MatchingSize(a, b) ==
  IF a = << >> \/ b = << >> THEN 0
  ELSE LET m == LongestMatch(a, b)
       IN  IF m.size = 0 THEN 0
           ELSE m.size
                + MatchingSize(SubSeq(a, 1, m.i - 1), SubSeq(b, 1, m.j - 1))
                + MatchingSize(SubSeq(a, m.i + m.size, Len(a)),
                               SubSeq(b, m.j + m.size, Len(b)))

\* int(round(100 * 2.0 * matches / total)): round() rounds a half to the even
\* neighbour.
RoundedPercent(matches, total) ==
  LET n == 200 * matches
      q == n \div total
      r == n % total
  IN  IF 2 * r < total THEN q
      ELSE IF 2 * r > total THEN q + 1
      ELSE IF q % 2 = 0 THEN q ELSE q + 1

\* fuzz.ratio: 0 for an empty string, else the rounded SequenceMatcher ratio.
ratio(s1, s2) ==
  IF s1 = << >> \/ s2 = << >> THEN 0
  ELSE RoundedPercent(MatchingSize(s1, s2), Len(s1) + Len(s2))

\* fuzz.token_set_ratio on two processed strings.
token_set_ratio(p1, p2) ==
  IF p1 = p2 THEN 100
  ELSE IF p1 = << >> \/ p2 = << >> THEN 0
  ELSE LET tokens1       == Range(Split(p1))
           tokens2       == Range(Split(p2))
           sorted_sect   == Join(SortedTokens(tokens1 \cap tokens2))
           sorted_1to2   == Join(SortedTokens(tokens1 \ tokens2))
           sorted_2to1   == Join(SortedTokens(tokens2 \ tokens1))
           combined_1to2 == Strip(sorted_sect \o << " " >> \o sorted_1to2)
           combined_2to1 == Strip(sorted_sect \o << " " >> \o sorted_2to1)
       IN  Max({ ratio(sorted_sect, combined_1to2),
                 ratio(sorted_sect, combined_2to1),
                 ratio(combined_1to2, combined_2to1) })

\* The score extractOne gives each choice, in the order of questions_list.
Scores(ql, df) ==
  [ i \in DOMAIN df |-> token_set_ratio(full_process(ql), full_process(df[i].question)) ]

\* process.extractOne: None for no choices, else max() over the scored
\* choices, which keeps the first of equal scores.
extractOne(ql, df) ==
  IF df = << >> THEN [none |-> TRUE, best_match |-> << >>, score |-> 0]
  ELSE LET s    == Scores(ql, df)
           top  == Max(Range(s))
           best == Min({ i \in DOMAIN df : s[i] = top })
       IN  [none |-> FALSE, best_match |-> df[best].question, score |-> top]

FuzzyThreshold == 70

\* Faulty variant of Accepts: the threshold itself is rejected.
AcceptsAbove(s) == s > FuzzyThreshold

\* if score >= 70
Accepts(s) == s >= FuzzyThreshold

\* dataframe[dataframe['question'] == best_match].iloc[0]
BestRow(bm, df) == Min({ i \in DOMAIN df : df[i].question = bm })

\* The string get_answer returns when no stage finds a row.
NotFoundMessage ==
  "I'm sorry, I couldn't find a relevant answer. Could you please rephrase your question?"

-----------------------------------------------------------------------------
(* Data *)

\* synonym_dict, in insertion order: each entry is the key (standardT) and its list (syns).
SYNONYM_DICT ==
  << \* "ai": ['artificial intelligence', 'machine intelligence', 'algorithmic intelligence']
     [standardT |-> <<"a","i">>,
      syns |-> << <<"a","r","t","i","f","i","c","i","a","l"," ","i","n","t","e","l","l","i","g","e","n","c","e">>,
                  <<"m","a","c","h","i","n","e"," ","i","n","t","e","l","l","i","g","e","n","c","e">>,
                  <<"a","l","g","o","r","i","t","h","m","i","c"," ","i","n","t","e","l","l","i","g","e","n","c","e">> >>],
     \* "artificial intelligence": ['ai', 'machine intelligence', 'algorithmic intelligence']
     [standardT |-> <<"a","r","t","i","f","i","c","i","a","l"," ","i","n","t","e","l","l","i","g","e","n","c","e">>,
      syns |-> << <<"a","i">>,
                  <<"m","a","c","h","i","n","e"," ","i","n","t","e","l","l","i","g","e","n","c","e">>,
                  <<"a","l","g","o","r","i","t","h","m","i","c"," ","i","n","t","e","l","l","i","g","e","n","c","e">> >>],
     \* "machine learning": ['ml', 'statistical learning', 'predictive analytics']
     [standardT |-> <<"m","a","c","h","i","n","e"," ","l","e","a","r","n","i","n","g">>,
      syns |-> << <<"m","l">>,
                  <<"s","t","a","t","i","s","t","i","c","a","l"," ","l","e","a","r","n","i","n","g">>,
                  <<"p","r","e","d","i","c","t","i","v","e"," ","a","n","a","l","y","t","i","c","s">> >>],
     \* "ml": ['machine learning']
     [standardT |-> <<"m","l">>,
      syns |-> << <<"m","a","c","h","i","n","e"," ","l","e","a","r","n","i","n","g">> >>],
     \* "robotics": ['robot engineering', 'robot science']
     [standardT |-> <<"r","o","b","o","t","i","c","s">>,
      syns |-> << <<"r","o","b","o","t"," ","e","n","g","i","n","e","e","r","i","n","g">>,
                  <<"r","o","b","o","t"," ","s","c","i","e","n","c","e">> >>],
     \* "robot": ['automaton', 'machine']
     [standardT |-> <<"r","o","b","o","t">>,
      syns |-> << <<"a","u","t","o","m","a","t","o","n">>,
                  <<"m","a","c","h","i","n","e">> >>],
     \* "computer vision": ['vision systems', 'image recognition']
     [standardT |-> <<"c","o","m","p","u","t","e","r"," ","v","i","s","i","o","n">>,
      syns |-> << <<"v","i","s","i","o","n"," ","s","y","s","t","e","m","s">>,
                  <<"i","m","a","g","e"," ","r","e","c","o","g","n","i","t","i","o","n">> >>],
     \* "natural language processing": ['nlp', 'language understanding']
     [standardT |-> <<"n","a","t","u","r","a","l"," ","l","a","n","g","u","a","g","e"," ","p","r","o","c","e","s","s","i","n","g">>,
      syns |-> << <<"n","l","p">>,
                  <<"l","a","n","g","u","a","g","e"," ","u","n","d","e","r","s","t","a","n","d","i","n","g">> >>],
     \* "nlp": ['natural language processing']
     [standardT |-> <<"n","l","p">>,
      syns |-> << <<"n","a","t","u","r","a","l"," ","l","a","n","g","u","a","g","e"," ","p","r","o","c","e","s","s","i","n","g">> >>],
     \* "technology": ['tech', 'innovation', 'engineering', 'machinery', 'tools']
     [standardT |-> <<"t","e","c","h","n","o","l","o","g","y">>,
      syns |-> << <<"t","e","c","h">>,
                  <<"i","n","n","o","v","a","t","i","o","n">>,
                  <<"e","n","g","i","n","e","e","r","i","n","g">>,
                  <<"m","a","c","h","i","n","e","r","y">>,
                  <<"t","o","o","l","s">> >>],
     \* "engineering": ['technology', 'design', 'construction']
     [standardT |-> <<"e","n","g","i","n","e","e","r","i","n","g">>,
      syns |-> << <<"t","e","c","h","n","o","l","o","g","y">>,
                  <<"d","e","s","i","g","n">>,
                  <<"c","o","n","s","t","r","u","c","t","i","o","n">> >>],
     \* "sensor": ['detector', 'probe']
     [standardT |-> <<"s","e","n","s","o","r">>,
      syns |-> << <<"d","e","t","e","c","t","o","r">>,
                  <<"p","r","o","b","e">> >>],
     \* "actuator": ['motor', 'driver']
     [standardT |-> <<"a","c","t","u","a","t","o","r">>,
      syns |-> << <<"m","o","t","o","r">>,
                  <<"d","r","i","v","e","r">> >>],
     \* "big data": ['large datasets', 'massive data']
     [standardT |-> <<"b","i","g"," ","d","a","t","a">>,
      syns |-> << <<"l","a","r","g","e"," ","d","a","t","a","s","e","t","s">>,
                  <<"m","a","s","s","i","v","e"," ","d","a","t","a">> >>],
     \* "dataset": ['data collection', 'data set']
     [standardT |-> <<"d","a","t","a","s","e","t">>,
      syns |-> << <<"d","a","t","a"," ","c","o","l","l","e","c","t","i","o","n">>,
                  <<"d","a","t","a"," ","s","e","t">> >>],
     \* "deep learning": ['deep neural networks']
     [standardT |-> <<"d","e","e","p"," ","l","e","a","r","n","i","n","g">>,
      syns |-> << <<"d","e","e","p"," ","n","e","u","r","a","l"," ","n","e","t","w","o","r","k","s">> >>],
     \* "neural network": ['neural net', 'nn']
     [standardT |-> <<"n","e","u","r","a","l"," ","n","e","t","w","o","r","k">>,
      syns |-> << <<"n","e","u","r","a","l"," ","n","e","t">>,
                  <<"n","n">> >>],
     \* "nn": ['neural network']
     [standardT |-> <<"n","n">>,
      syns |-> << <<"n","e","u","r","a","l"," ","n","e","t","w","o","r","k">> >>],
     \* "cobot": ['collaborative robot']
     [standardT |-> <<"c","o","b","o","t">>,
      syns |-> << <<"c","o","l","l","a","b","o","r","a","t","i","v","e"," ","r","o","b","o","t">> >>],
     \* "collaborative robot": ['cobot']
     [standardT |-> <<"c","o","l","l","a","b","o","r","a","t","i","v","e"," ","r","o","b","o","t">>,
      syns |-> << <<"c","o","b","o","t">> >>],
     \* "swarming robotics": ['robot swarms', 'swarm robotics']
     [standardT |-> <<"s","w","a","r","m","i","n","g"," ","r","o","b","o","t","i","c","s">>,
      syns |-> << <<"r","o","b","o","t"," ","s","w","a","r","m","s">>,
                  <<"s","w","a","r","m"," ","r","o","b","o","t","i","c","s">> >>] >>

EmptyTable == << >>

PartsTable ==
  << \* "gripper gear"
     [question |-> <<"g","r","i","p","p","e","r"," ","g","e","a","r">>, answer |-> "ans_gear"],
     \* "Gear gripper"
     [question |-> <<"G","e","a","r"," ","g","r","i","p","p","e","r">>, answer |-> "ans_gear2"],
     \* "camera sensors"
     [question |-> <<"c","a","m","e","r","a"," ","s","e","n","s","o","r","s">>, answer |-> "ans_camera"] >>

TopicTable ==
  << \* "what are robots"
     [question |-> <<"w","h","a","t"," ","a","r","e"," ","r","o","b","o","t","s">>, answer |-> "ans_robots"],
     \* "What is AI"
     [question |-> <<"W","h","a","t"," ","i","s"," ","A","I">>, answer |-> "ans_ai"],
     \* "technology"
     [question |-> <<"t","e","c","h","n","o","l","o","g","y">>, answer |-> "ans_tech"],
     \* "engineering design"
     [question |-> <<"e","n","g","i","n","e","e","r","i","n","g"," ","d","e","s","i","g","n">>, answer |-> "ans_eng"] >>

Prompts ==
  { \* " "
     <<" ">>,
     \* "grippers"
     <<"g","r","i","p","p","e","r","s">>,
     \* "lidar sensor"
     <<"l","i","d","a","r"," ","s","e","n","s","o","r">>,
     \* "gear Gripper"
     <<"g","e","a","r"," ","G","r","i","p","p","e","r">>,
     \* "gear sensors gripper"
     <<"g","e","a","r"," ","s","e","n","s","o","r","s"," ","g","r","i","p","p","e","r">> }

SynonymPrompts ==
  { \* "what is ai"
     <<"w","h","a","t"," ","i","s"," ","a","i">>,
     \* "tech"
     <<"t","e","c","h">>,
     \* "technology"
     <<"t","e","c","h","n","o","l","o","g","y">>,
     \* "robot tech"
     <<"r","o","b","o","t"," ","t","e","c","h">> }

-----------------------------------------------------------------------------
(* The state machine *)

\* The browser sessions running the script.
Users == { "u1", "u2" }

\* Prompts submitted in one behaviour, all sessions together.
MaxCalls == 2

\* Number of prompts submitted so far: the user entries of all histories.
Calls ==
  Cardinality({ p \in Users \X (1..(2 * MaxCalls)) :
                  /\ p[2] <= Len(messages[p[1]])
                  /\ messages[p[1]][p[2]].role = "user" })

\* The state after the script's first run against a loaded table.
Loaded(tables) ==
  /\ qa_df \in tables
  /\ synonym_dict = SYNONYM_DICT
  /\ messages = [ u \in Users |-> << >> ]
  /\ pc = [ u \in Users |-> "idle" ]
  /\ query = [ u \in Users |-> << >> ]
  /\ query_lower = [ u \in Users |-> << >> ]
  /\ keyword = [ u \in Users |-> << >> ]
  /\ best_match = [ u \in Users |-> << >> ]
  /\ score = [ u \in Users |-> -1 ]
  /\ response = [ u \in Users |-> "" ]

\* The tables load_qa_data can return: a sheet with the two column headers and
\* no rows, or a sheet with rows.
Init == Loaded({ EmptyTable, PartsTable })

\* if prompt := st.chat_input(...): the user entry is appended and get_answer
\* is called with the prompt.
Submit(u, prompt) ==
  /\ pc[u] = "idle"
  /\ Calls < MaxCalls
  /\ prompt # << >>
  /\ messages' = [messages EXCEPT ![u] = Append(@, [role |-> "user", content |-> prompt])]
  /\ query' = [query EXCEPT ![u] = prompt]
  /\ pc' = [pc EXCEPT ![u] = "normalize"]
  /\ UNCHANGED << qa_df, synonym_dict, query_lower, keyword, best_match, score, response >>

\* Faulty variant of Normalize: the keyword match is entered without the exact match.
NormalizeThenKeyword(u) ==
  /\ pc[u] = "normalize"
  /\ query_lower' = [query_lower EXCEPT ![u] = normalize_query(query[u], synonym_dict)]
  /\ pc' = [pc EXCEPT ![u] = "keyword"]
  /\ UNCHANGED << qa_df, synonym_dict, messages, query, keyword, best_match, score, response >>

\* query_lower = normalize_query(query, synonym_dict)
Normalize(u) ==
  /\ pc[u] = "normalize"
  /\ query_lower' = [query_lower EXCEPT ![u] = normalize_query(query[u], synonym_dict)]
  /\ pc' = [pc EXCEPT ![u] = "exact"]
  /\ UNCHANGED << qa_df, synonym_dict, messages, query, keyword, best_match, score, response >>

\* Faulty variant of ExactMatch: the question column is lowered in place before the
\* comparison.
ExactMatchLowering(u) ==
  /\ pc[u] = "exact"
  /\ qa_df' = [ i \in DOMAIN qa_df |-> [qa_df[i] EXCEPT !.question = Lower(@)] ]
  /\ IF ExactRows(query_lower[u], qa_df) # {}
     THEN /\ response' = [response EXCEPT
                            ![u] = qa_df[Min(ExactRows(query_lower[u], qa_df))].answer]
          /\ pc' = [pc EXCEPT ![u] = "return"]
     ELSE /\ pc' = [pc EXCEPT ![u] = "keyword"]
          /\ UNCHANGED response
  /\ UNCHANGED << synonym_dict, messages, query, query_lower, keyword, best_match, score >>

\* The exact match: returns the answer of the first row whose lowered question
\* equals the normalized query.
ExactMatch(u) ==
  /\ pc[u] = "exact"
  /\ IF ExactRows(query_lower[u], qa_df) # {}
     THEN /\ response' = [response EXCEPT
                            ![u] = qa_df[Min(ExactRows(query_lower[u], qa_df))].answer]
          /\ pc' = [pc EXCEPT ![u] = "return"]
     ELSE /\ pc' = [pc EXCEPT ![u] = "keyword"]
          /\ UNCHANGED response
  /\ UNCHANGED << qa_df, synonym_dict, messages, query, query_lower, keyword,
                  best_match, score >>

\* The keyword match: the keywords of the normalized query, longest first;
\* returns the answer of the first row containing the first keyword that any
\* row contains.
KeywordMatch(u) ==
  /\ pc[u] = "keyword"
  /\ LET found == KeywordLoop(SortedByLenDesc(Keywords(query_lower[u])), qa_df, << >>)
     IN  /\ keyword' = [keyword EXCEPT ![u] = found.keyword]
         /\ IF found.hit
            THEN /\ response' = [response EXCEPT ![u] = qa_df[found.row].answer]
                 /\ pc' = [pc EXCEPT ![u] = "return"]
            ELSE /\ pc' = [pc EXCEPT ![u] = "fuzzy"]
                 /\ UNCHANGED response
  /\ UNCHANGED << qa_df, synonym_dict, messages, query, query_lower, best_match, score >>

\* The fuzzy match: unpacking extractOne's None raises TypeError; else the
\* answer of the best match is returned when its score reaches the threshold.
FuzzyMatch(u) ==
  /\ pc[u] = "fuzzy"
  /\ LET found == extractOne(query_lower[u], qa_df)
     IN  IF found.none
         THEN /\ pc' = [pc EXCEPT ![u] = "raised"]
              /\ UNCHANGED << best_match, score, response >>
         ELSE /\ best_match' = [best_match EXCEPT ![u] = found.best_match]
              /\ score' = [score EXCEPT ![u] = found.score]
              /\ IF Accepts(found.score)
                 THEN /\ response' = [response EXCEPT
                                        ![u] = qa_df[BestRow(found.best_match, qa_df)].answer]
                      /\ pc' = [pc EXCEPT ![u] = "return"]
                 ELSE /\ pc' = [pc EXCEPT ![u] = "fallback"]
                      /\ UNCHANGED response
  /\ UNCHANGED << qa_df, synonym_dict, messages, query, query_lower, keyword >>

\* The last line of get_answer.
Fallback(u) ==
  /\ pc[u] = "fallback"
  /\ response' = [response EXCEPT ![u] = NotFoundMessage]
  /\ pc' = [pc EXCEPT ![u] = "return"]
  /\ UNCHANGED << qa_df, synonym_dict, messages, query, query_lower, keyword,
                  best_match, score >>

\* Back in the handler: the assistant entry is appended; the call's locals
\* are gone.
Respond(u) ==
  /\ pc[u] = "return"
  /\ messages' = [messages EXCEPT
                    ![u] = Append(@, [role |-> "assistant", content |-> response[u]])]
  /\ pc' = [pc EXCEPT ![u] = "idle"]
  /\ query' = [query EXCEPT ![u] = << >>]
  /\ query_lower' = [query_lower EXCEPT ![u] = << >>]
  /\ keyword' = [keyword EXCEPT ![u] = << >>]
  /\ best_match' = [best_match EXCEPT ![u] = << >>]
  /\ score' = [score EXCEPT ![u] = -1]
  /\ response' = [response EXCEPT ![u] = ""]
  /\ UNCHANGED << qa_df, synonym_dict >>

\* The exception leaves get_answer and the handler: the script run ends
\* without the assistant entry; the session state keeps what was appended.
Abort(u) ==
  /\ pc[u] = "raised"
  /\ pc' = [pc EXCEPT ![u] = "idle"]
  /\ query' = [query EXCEPT ![u] = << >>]
  /\ query_lower' = [query_lower EXCEPT ![u] = << >>]
  /\ keyword' = [keyword EXCEPT ![u] = << >>]
  /\ UNCHANGED << qa_df, synonym_dict, messages, best_match, score, response >>

Next ==
  \E u \in Users :
     \/ \E prompt \in Prompts : Submit(u, prompt)
     \/ Normalize(u)
     \/ ExactMatch(u)
     \/ KeywordMatch(u)
     \/ FuzzyMatch(u)
     \/ Fallback(u)
     \/ Respond(u)
     \/ Abort(u)

Spec == Init /\ [][Next]_vars

\* The same program with a table and prompts that use the synonyms.
SynonymInit == Loaded({ EmptyTable, TopicTable })

SynonymNext ==
  \E u \in Users :
     \/ \E prompt \in SynonymPrompts : Submit(u, prompt)
     \/ Normalize(u)
     \/ ExactMatch(u)
     \/ KeywordMatch(u)
     \/ FuzzyMatch(u)
     \/ Fallback(u)
     \/ Respond(u)
     \/ Abort(u)

SynonymSpec == SynonymInit /\ [][SynonymNext]_vars

-----------------------------------------------------------------------------
(* Properties *)

\* The call of session u is past normalize_query.
Normalized(u) == pc[u] \in { "exact", "keyword", "fuzzy", "fallback", "return", "raised" }

\* The call of session u is past the exact match, which found no row.
PastExact(u) ==
  /\ pc[u] \in { "fuzzy", "fallback", "return", "raised" }
  /\ ExactRows(query_lower[u], qa_df) = {}

\* Some row's question contains the token as a whole word, ignoring case.
Matches(t) == \E r \in DOMAIN qa_df : ContainsWord(qa_df[r].question, t)

\* The first row, in table order, whose question contains the token.
FirstRowWith(t) == Min({ r \in DOMAIN qa_df : ContainsWord(qa_df[r].question, t) })

\* Token i is tried before token j: longer first, equal lengths left to right.
TriedBefore(ts, i, j) ==
  \/ Len(ts[i]) > Len(ts[j])
  \/ Len(ts[i]) = Len(ts[j]) /\ i < j

\* The call of session u is past the exact and the keyword match, which both
\* found no row of a table that has rows.
PastKeyword(u) ==
  /\ pc[u] \in { "fallback", "return" }
  /\ qa_df # << >>
  /\ ExactRows(query_lower[u], qa_df) = {}
  /\ \A t \in Range(Keywords(query_lower[u])) : ~Matches(t)

\* C1: a query that equals, ignoring case, the question of some row gets the
\* answer of the first such row, whatever the synonyms do to the query.
C1_VerbatimQuestionGetsItsAnswer ==
  \A u \in Users :
     LET rows == { r \in DOMAIN qa_df : Lower(qa_df[r].question) = Lower(query[u]) }
     IN  (pc[u] \in { "return", "raised" } /\ rows # {})
            => (pc[u] = "return" /\ response[u] = qa_df[Min(rows)].answer)

\* The message the specification gives for a query without tokens.
NotUnderstoodMessage ==
  "I'm sorry, I couldn't understand your question. Please try rephrasing it."

\* C2: a call whose normalized query has no tokens returns the "couldn't
\* understand" message, and the fuzzy match has not run in it (it has assigned
\* no score).
C2_NoTokensNotUnderstood ==
  \A u \in Users :
     (pc[u] = "return" /\ Keywords(query_lower[u]) = << >>)
        => (response[u] = NotUnderstoodMessage /\ score[u] = -1)

\* C3: with a table of zero rows every query ends in the "couldn't find"
\* message and never in an error.
C3_EmptyTableFallsBack ==
  qa_df = << >> =>
     \A u \in Users :
        /\ pc[u] # "raised"
        /\ pc[u] = "return" => response[u] = NotFoundMessage

\* qv is qc written with a variant in place of the canonical term of some
\* entry of synonym_dict.
WrittenWithVariant(qv, qc) ==
  \E e \in Range(synonym_dict) :
     \E v \in Range(e.syns) :
        /\ Find(qc, e.standardT) # 0
        /\ qv = Replace(qc, e.standardT, v)

\* C4: when the table has a row whose question is the canonical phrasing, the
\* query written with a variant gets the same answer as the query written with
\* the canonical term.
C4_VariantResolvesAsCanonical ==
  \A uv \in Users, uc \in Users :
     ( /\ pc[uv] = "return"
       /\ pc[uc] = "return"
       /\ \E r \in DOMAIN qa_df : Lower(qa_df[r].question) = Lower(query[uc])
       /\ WrittenWithVariant(query[uv], query[uc]) )
        => response[uv] = response[uc]

\* The canonical terms: the keys of synonym_dict.
Keys == { e.standardT : e \in Range(synonym_dict) }

\* q is canonical terms separated by single spaces.
RECURSIVE MadeOfKeys(_)
MadeOfKeys(q) ==
  \/ q \in Keys
  \/ \E k \in Keys :
        /\ Len(q) > Len(k) + 1
        /\ SubSeq(q, 1, Len(k) + 1) = k \o << " " >>
        /\ MadeOfKeys(SubSeq(q, Len(k) + 2, Len(q)))

\* C5: normalize_query leaves a lowercase query made only of canonical terms
\* unchanged, and normalizing its result again changes nothing.
C5_NormalizeIdempotent ==
  \A u \in Users :
     Normalized(u) =>
        /\ (query[u] = Lower(query[u]) /\ MadeOfKeys(query[u]))
              => query_lower[u] = query[u]
        /\ normalize_query(query_lower[u], synonym_dict) = query_lower[u]

C7_FuzzyThreshold ==
  \A u \in Users :
     PastKeyword(u) =>
        LET s == Scores(query_lower[u], qa_df)
        IN  \E b \in DOMAIN qa_df :
               /\ \A i \in DOMAIN qa_df : s[i] <= s[b]
               /\ \A i \in 1..(b - 1) : s[i] < s[b]
               /\ score[u] = s[b]
               /\ best_match[u] = qa_df[b].question
               /\ IF s[b] >= 70
                  THEN pc[u] = "return" /\ response[u] = qa_df[b].answer
                  ELSE pc[u] = "fallback" \/ response[u] = NotFoundMessage

\* One call returned the answer of the first of two rows that both score
\* exactly 70, and another returned the fallback message on a best score of 69.
C7_Witness ==
  \E u \in Users, w \in Users :
     /\ PastKeyword(u) /\ pc[u] = "return" /\ score[u] = 70
     /\ response[u] = qa_df[1].answer
     /\ Cardinality({ i \in DOMAIN qa_df : Scores(query_lower[u], qa_df)[i] = 70 }) > 1
     /\ PastKeyword(w) /\ pc[w] = "return" /\ score[w] = 69
     /\ response[w] = NotFoundMessage

\* C8: the stages run in the order exact, keyword, fuzzy, fallback; a stage is
\* entered only when the one before it found nothing, the call returns from
\* the first stage that succeeds, and no stage is entered twice in one call.
C8_StageOrder ==
  [][ \A u \in Users :
         pc'[u] # pc[u] =>
            CASE pc'[u] = "normalize" -> pc[u] = "idle"
              [] pc'[u] = "exact"     -> pc[u] = "normalize"
              [] pc'[u] = "keyword"   ->
                    /\ pc[u] = "exact"
                    /\ ExactRows(query_lower[u], qa_df) = {}
              [] pc'[u] = "fuzzy"     ->
                    /\ pc[u] = "keyword"
                    /\ \A t \in Range(Keywords(query_lower[u])) : ~Matches(t)
              [] pc'[u] = "fallback"  ->
                    /\ pc[u] = "fuzzy"
                    /\ score'[u] < 70
              [] pc'[u] = "raised"    -> pc[u] = "fuzzy"
              [] pc'[u] = "return"    ->
                    \/ pc[u] = "exact" /\ ExactRows(query_lower[u], qa_df) # {}
                    \/ pc[u] = "keyword"
                         /\ \E t \in Range(Keywords(query_lower[u])) : Matches(t)
                    \/ pc[u] = "fuzzy" /\ score'[u] >= 70
                    \/ pc[u] = "fallback" /\ response'[u] = NotFoundMessage
              [] pc'[u] = "idle"      -> pc[u] \in { "return", "raised" }
    ]_vars

\* A call went through all four stages: it returns the fallback message after
\* the fuzzy match scored its best candidate below the threshold.
C8_Witness ==
  \E u \in Users :
     /\ PastKeyword(u)
     /\ pc[u] = "return"
     /\ score[u] \in 0..69
     /\ response[u] = NotFoundMessage

\* The answers given so far depend on the query alone: two returning calls
\* with the same query hold the same response, and two answered prompts with
\* the same text have the same answer entry after them.
SameQuerySameAnswer ==
  /\ \A u \in Users, w \in Users :
        (pc[u] = "return" /\ pc[w] = "return" /\ query[u] = query[w])
           => response[u] = response[w]
  /\ \A u \in Users, w \in Users :
        \A i \in 1..(Len(messages[u]) - 1), j \in 1..(Len(messages[w]) - 1) :
           ( /\ messages[u][i].role = "user" /\ messages[u][i + 1].role = "assistant"
             /\ messages[w][j].role = "user" /\ messages[w][j + 1].role = "assistant"
             /\ messages[u][i].content = messages[w][j].content )
              => messages[u][i + 1].content = messages[w][j + 1].content

\* C9: no step changes the knowledge table or synonym_dict, and calls with the
\* same query get the same answer, also when the calls of two sessions are
\* interleaved.
C9_PureAndDeterministic ==
  [][ /\ qa_df' = qa_df
      /\ synonym_dict' = synonym_dict
      /\ SameQuerySameAnswer' ]_vars

\* The calls of two sessions with the same query are both about to return, and
\* the table has a question that is not lowercase.
C9_Witness ==
  \E u \in Users, w \in Users :
     /\ u # w
     /\ pc[u] = "return" /\ pc[w] = "return"
     /\ query[u] = query[w]
     /\ response[u] = response[w]
     /\ \E r \in DOMAIN qa_df : qa_df[r].question # Lower(qa_df[r].question)

\* C10: between turns the history has even length and its roles alternate
\* user, assistant, starting with user.
C10_HistoryAlternates ==
  \A u \in Users :
     pc[u] = "idle" =>
        /\ Len(messages[u]) % 2 = 0
        /\ \A i \in DOMAIN messages[u] :
              messages[u][i].role = IF i % 2 = 1 THEN "user" ELSE "assistant"

=============================================================================
